---- MODULE Spec2Model ----
(***************************************************************************)
(* Model of the schema migration engine of greenerCICD:                    *)
(*   src/proxy/database/migration-manager.js  (MigrationManager)           *)
(* The registry is the manager's `migrations` array, the ledger is the     *)
(* schema_migrations table of the D1 database, and migrate() is modelled   *)
(* step by step, one action per await point of the code.                   *)
(***************************************************************************)
EXTENDS Integers, Sequences, FiniteSets, TLC

\* ---------------------------------------------------------------- bounds
MaxVersion == 2          \* versions offered to register() are 1..MaxVersion
MaxMigrations == 2       \* register() is offered while the registry is shorter

Versions == 1..MaxVersion
Timestamps == {"t1"}      \* values CURRENT_TIMESTAMP takes at an INSERT
Names == {"n1"}
Checksums == {"c1", "c2"}

\* SQL texts are sequences of characters; ";" separates statements.
SqlTwo == <<"a", ";", " ", "b", ";">>
SqlBlank == <<" ", ";", " ">>
SqlTexts == {SqlTwo, SqlBlank}

Procs == {1, 2}          \* invocations of migrate() that may be in progress
Sequential == {1}        \* the invocation of a caller that awaits each call

NoResult == [status |-> "none", total |-> 0, applied |-> 0, new |-> 0,
             stage |-> "none", version |-> 0, cause |-> "none"]
NoQuery == [op |-> "none"]

MaxContentLen == 2       \* contents handed to generateChecksum are this long at most
MaxCalls == 2            \* generateChecksum calls on the content
MaxWindows == 1          \* the clock runs for this many cache windows
MaxDrift == 1            \* and is read this many milliseconds into a window

\* characters of the contents, and the contents
Alphabet == {"a", "b", ";", " "}
Contents == UNION {[1..n -> Alphabet] : n \in 0..MaxContentLen}

\* const cacheExpiry = 5 * 60 * 1000, in milliseconds
CacheExpiry == 5 * 60 * 1000

\* Date.now() when the isolate starts: later than one cache window after 0,
\* the initial migrationCache.checkedAt
StartTime == CacheExpiry + 1
Times == {StartTime + w * CacheExpiry + d :
            w \in 0..MaxWindows, d \in 0..MaxDrift}

NoCheck == [phase |-> "none", stamp |-> 0, status |-> NoQuery]
NoFetch == [at |-> 0, enabled |-> FALSE, started |-> FALSE]
NoRequest == [phase |-> "none", path |-> "none", db |-> FALSE,
              auth |-> "none", token |-> "none", status |-> 0]

\* migration worker: what a request is made of
Paths == {"/migrate", "/status", "/health", "/"}
AuthHeaders == {"null", "Bearer tok", "Bearer bad"}
Tokens == {"undefined", "", "tok"}

\* values of a checksum that are not strings: null, and the promise an async
\* function returns to a caller that does not await it
Null == "null"
PromiseObject == "Promise"
\* what the storage keeps of a promise, when it accepts one
CoercedPromise == "[object Promise]"

\* migrations/001_initial_schema.js: version, name, up, checksum
Sql001 == <<" ", "a", ";", " ", "b", ";", " ">>
Migration001 == [version |-> 1, name |-> "initial_schema", up |-> Sql001,
                 checksum |-> Null]

VARIABLES
    migrations,     \* this.migrations: the registry of the manager
    tableExists,    \* the schema_migrations table has been created
    ledger,         \* rows of schema_migrations
    schema,         \* schema-change statements committed, tagged by version
    pc,             \* position of each migrate() invocation
    applied,        \* migrate(): `applied`, the rows read at the start
    idx,            \* migrate(): position of the for-of loop in migrations
    migrationsRun,  \* migrate(): `migrationsRun`
    result,         \* outcome of the last finished migrate() call
    prior,          \* result.status of the call before the current one
    warnings,       \* versions for which console.warn reported a mismatch
    verified,       \* loop positions whose checksum comparison was evaluated
    attempts,       \* calls of applyMigration in the current call, in order
    startLedger,    \* ledger when the current/last call started
    commits,        \* per version, the statement lists of its committed batches
    query,          \* the last register()/initialize()/getStatus()/isApplied() call
    content,        \* the content handed to generateChecksum
    digests,        \* what the generateChecksum calls on it returned, with time
    now,            \* Date.now()
    migrationCache, \* main worker: migrationCache {status, checkedAt, running}
    check,          \* main worker: the background checks, by invocation
    fetched,        \* main worker: the fetch handled last
    request         \* migration worker: the request in progress or answered last

dbVars == <<tableExists, ledger, schema>>
callVars == <<pc, applied, idx, migrationsRun, result, prior, warnings,
              verified, attempts, startLedger>>
vars == <<migrations, tableExists, ledger, schema, pc, applied, idx,
          migrationsRun, result, prior, warnings, verified, attempts,
          startLedger, commits, query, content, digests, now,
          migrationCache, check, fetched, request>>
hostVars == <<content, digests, now, migrationCache, check, fetched, request>>

\* ------------------------------------------------------- pure functions

\* Array.prototype.sort((a, b) => a.version - b.version): a stable sort.
RECURSIVE InsertSorted(_, _)
InsertSorted(sorted, m) ==
    IF sorted = <<>> THEN <<m>>
    ELSE IF Head(sorted).version <= m.version
         THEN <<Head(sorted)>> \o InsertSorted(Tail(sorted), m)
         ELSE <<m>> \o sorted

\* register() without the sort: the array stays in call order.
SortByVersionNone(arr) == arr

RECURSIVE SortByVersion(_)
SortByVersion(arr) ==
    IF arr = <<>> THEN <<>>
    ELSE InsertSorted(SortByVersion(SubSeq(arr, 1, Len(arr) - 1)),
                      arr[Len(arr)])

\* String.prototype.split(';')
RECURSIVE SplitSemi(_)
SplitSemi(s) ==
    IF \A i \in 1..Len(s) : s[i] /= ";" THEN <<s>>
    ELSE LET k == CHOOSE i \in 1..Len(s) :
                    /\ s[i] = ";"
                    /\ \A j \in 1..(i - 1) : s[j] /= ";"
         IN  <<SubSeq(s, 1, k - 1)>> \o SplitSemi(SubSeq(s, k + 1, Len(s)))

RECURSIVE TrimLeft(_)
TrimLeft(s) ==
    IF s /= <<>> /\ Head(s) = " " THEN TrimLeft(Tail(s)) ELSE s

RECURSIVE TrimRight(_)
TrimRight(s) ==
    IF s /= <<>> /\ s[Len(s)] = " "
    THEN TrimRight(SubSeq(s, 1, Len(s) - 1)) ELSE s

\* String.prototype.trim()
Trim(s) == TrimRight(TrimLeft(s))

\* SqlStatements without the filter: empty fragments count as statements.
SqlStatementsNoFilter(upSql) ==
    LET parts == SplitSemi(upSql)
    IN  [i \in 1..Len(parts) |-> Trim(parts[i])]

\* applyMigration: upSql.split(';').map(s => s.trim()).filter(s => s.length > 0)
SqlStatements(upSql) ==
    LET parts == SplitSemi(upSql)
        trimmed == [i \in 1..Len(parts) |-> Trim(parts[i])]
    IN  SelectSeq(trimmed, LAMBDA f : Len(f) > 0)

\* SELECT version, checksum FROM schema_migrations ORDER BY version
RECURSIVE OrderByVersion(_)
OrderByVersion(rows) ==
    IF rows = {} THEN <<>>
    ELSE LET r == CHOOSE x \in rows : \A y \in rows : x.version <= y.version
         IN  <<[version |-> r.version, checksum |-> r.checksum]>>
             \o OrderByVersion(rows \ {r})

\* getAppliedMigrations falling back to `[]` although the table has rows.
getAppliedMigrationsNone == <<>>

getAppliedMigrations == OrderByVersion(ledger)

\* new Set(applied.map(m => m.version))
AppliedVersions(app) == {app[i].version : i \in 1..Len(app)}

\* applied.find(m => m.version === version): index of the first match, or 0
FindApplied(app, version) ==
    IF \E i \in 1..Len(app) : app[i].version = version
    THEN CHOOSE i \in 1..Len(app) :
            /\ app[i].version = version
            /\ \A j \in 1..(i - 1) : app[j].version /= version
    ELSE 0

\* The row the INSERT of applyMigration binds; applied_at takes its default,
\* CURRENT_TIMESTAMP, which is t.
LedgerRow(m, t) ==
    [version |-> m.version, name |-> m.name,
     checksum |-> IF m.checksum = PromiseObject THEN CoercedPromise
                  ELSE m.checksum,
     applied_at |-> t]

LedgerVersions(rows) == {r.version : r \in rows}

\* Batch as a backend without transactions would run it: the statements
\* before the failing one stay applied.
BatchNonAtomic(version, stmts, row, fault) ==
    LET pk == row.version \in LedgerVersions(ledger)
        failAt == IF fault /= 0 THEN fault
                  ELSE IF pk THEN Len(stmts) + 1 ELSE 0
        ran == IF failAt = 0 THEN Len(stmts) ELSE failAt - 1
    IN  [failAt |-> failAt,
         ledger |-> IF failAt = 0 THEN ledger \cup {row} ELSE ledger,
         schema |-> schema \cup {<<version, stmts[i]>> : i \in 1..ran}]

\* Batch whose INSERT replaces the row of a version that has one.
BatchUpsert(version, stmts, row, fault) ==
    [failAt |-> fault,
     ledger |-> IF fault = 0
                THEN {r \in ledger : r.version /= row.version} \cup {row}
                ELSE ledger,
     schema |-> IF fault = 0
                THEN schema \cup {<<version, stmts[i]>> : i \in 1..Len(stmts)}
                ELSE schema]

\* Batch with a ledger table whose version column is not a PRIMARY KEY.
BatchNoPrimaryKey(version, stmts, row, fault) ==
    [failAt |-> fault,
     ledger |-> IF fault = 0 THEN ledger \cup {row} ELSE ledger,
     schema |-> IF fault = 0
                THEN schema \cup {<<version, stmts[i]>> : i \in 1..Len(stmts)}
                ELSE schema]

\* db.batch(statements): the schema statements followed by the ledger INSERT,
\* run as one transaction.  fault is the index of the statement the storage
\* fails on (0: none); the PRIMARY KEY on version fails the INSERT, the last
\* statement, when the version already has a row.
Batch(version, stmts, row, fault) ==
    LET pk == row.version \in LedgerVersions(ledger)
        failAt == IF fault /= 0 THEN fault
                  ELSE IF pk THEN Len(stmts) + 1 ELSE 0
    IN  [failAt |-> failAt,
         ledger |-> IF failAt = 0 THEN ledger \cup {row} ELSE ledger,
         schema |-> IF failAt = 0
                    THEN schema \cup {<<version, stmts[i]>> : i \in 1..Len(stmts)}
                    ELSE schema]

\* TextEncoder.encode: the UTF-8 bytes of the content
CharCode(c) ==
    CASE c = "a" -> 97
      [] c = "b" -> 98
      [] c = ";" -> 59
      [] c = " " -> 32

Encode(s) == [i \in 1..Len(s) |-> CharCode(s[i])]

\* crypto.subtle.digest('SHA-256', data), narrowed to two bytes: a function of
\* the bytes and of nothing else
RECURSIVE Mix(_, _)
Mix(h, data) ==
    IF data = <<>> THEN h
    ELSE Mix((h * 31 + Head(data)) % 256, Tail(data))

Digest(data) == <<Mix(7, data), Mix(11, data)>>

HexDigit(n) ==
    <<"0", "1", "2", "3", "4", "5", "6", "7", "8", "9",
      "a", "b", "c", "d", "e", "f">>[n + 1]

\* b.toString(16).padStart(2, '0')
HexByte(b) == IF b < 16 THEN "0" \o HexDigit(b)
              ELSE HexDigit(b \div 16) \o HexDigit(b % 16)

\* hashArray.map(...).join('')
RECURSIVE JoinHex(_)
JoinHex(bytes) ==
    IF bytes = <<>> THEN "" ELSE HexByte(Head(bytes)) \o JoinHex(Tail(bytes))

\* generateChecksum with a hasher that is fed, not reset, between calls.
generateChecksumChained(c) ==
    JoinHex(Digest(Encode(c) \o [i \in 1..Len(digests) |-> 1]))

\* generateChecksum(content): the value its promise resolves to
generateChecksum(c) == JoinHex(Digest(Encode(c)))

\* calling an async function without await: the caller holds the promise
Unawaited(value) == PromiseObject

\* loadMigrations: migration.checksum || generateChecksum(migration.up)
LoaderChecksum(m) ==
    IF m.checksum /= Null THEN m.checksum
    ELSE Unawaited(generateChecksum(m.up))

\* loadMigrations(db): the registry of the manager it returns
loadMigrations ==
    SortByVersion(Append(<<>>,
        [version |-> Migration001.version, name |-> Migration001.name,
         upSql |-> Migration001.up,
         checksum |-> LoaderChecksum(Migration001)]))

\* ----------------------------------------------------------------- Init
InitHost ==
    /\ content = <<>>
    /\ digests = <<>>
    /\ now = StartTime
    /\ migrationCache = [status |-> NoQuery, checkedAt |-> 0, running |-> FALSE]
    /\ check = [p \in Procs |-> NoCheck]
    /\ fetched = NoFetch
    /\ request = NoRequest

InitManager ==
    /\ migrations = <<>>
    /\ tableExists = FALSE
    /\ ledger = {}
    /\ schema = {}
    /\ pc = [p \in Procs |-> "idle"]
    /\ applied = [p \in Procs |-> <<>>]
    /\ idx = [p \in Procs |-> 0]
    /\ migrationsRun = [p \in Procs |-> 0]
    /\ result = [p \in Procs |-> NoResult]
    /\ prior = [p \in Procs |-> "none"]
    /\ warnings = [p \in Procs |-> {}]
    /\ verified = [p \in Procs |-> {}]
    /\ attempts = [p \in Procs |-> <<>>]
    /\ startLedger = [p \in Procs |-> {}]
    /\ commits = [v \in Versions |-> <<>>]
    /\ query = NoQuery

Init == InitManager /\ InitHost

AllIdle == \A p \in Procs : pc[p] = "idle"

\* The locals of finished calls and what was observed of them are dropped
\* when the registry changes: they describe calls on the registry as it was.
ForgetCalls ==
    /\ applied' = [p \in Procs |-> <<>>]
    /\ idx' = [p \in Procs |-> 0]
    /\ migrationsRun' = [p \in Procs |-> 0]
    /\ result' = [p \in Procs |-> NoResult]
    /\ prior' = [p \in Procs |-> "none"]
    /\ warnings' = [p \in Procs |-> {}]
    /\ verified' = [p \in Procs |-> {}]
    /\ attempts' = [p \in Procs |-> <<>>]
    /\ startLedger' = [p \in Procs |-> {}]
    /\ UNCHANGED pc

\* -------------------------------------------------------------- actions

\* new MigrationManager(db): a fresh, empty registry over the same database
NewManager ==
    /\ AllIdle
    /\ migrations /= <<>>
    /\ migrations' = <<>>
    /\ query' = NoQuery
    /\ ForgetCalls
    /\ UNCHANGED <<dbVars, commits>>
    /\ UNCHANGED hostVars

\* register(version, name, upSql, checksum), called between migrate() calls;
\* duplicates are accepted: the code pushes and sorts, nothing else
Register ==
    /\ AllIdle
    /\ Len(migrations) < MaxMigrations
    /\ \E version \in Versions, name \in Names, upSql \in SqlTexts,
          checksum \in Checksums :
         /\ migrations' = SortByVersion(Append(migrations,
               [version |-> version, name |-> name, upSql |-> upSql,
                checksum |-> checksum]))
         /\ query' = [op |-> "register", version |-> version]
    /\ ForgetCalls
    /\ UNCHANGED <<dbVars, commits>>
    /\ UNCHANGED hostVars

\* initialize() as DROP TABLE followed by CREATE TABLE.
InitializeRecreate ==
    /\ AllIdle
    /\ tableExists' = TRUE
    /\ ledger' = {}
    /\ query' = [op |-> "initialize"]
    /\ UNCHANGED <<migrations, schema, callVars, commits>>
    /\ UNCHANGED hostVars

\* initialize(): CREATE TABLE IF NOT EXISTS schema_migrations
Initialize ==
    /\ AllIdle
    /\ tableExists' = TRUE
    /\ query' = [op |-> "initialize"]
    /\ UNCHANGED <<migrations, ledger, schema, callVars, commits>>
    /\ UNCHANGED hostVars

\* the locals and observations of a call that starts
BeginCall(p) ==
    /\ applied' = [applied EXCEPT ![p] = <<>>]
    /\ idx' = [idx EXCEPT ![p] = 0]
    /\ migrationsRun' = [migrationsRun EXCEPT ![p] = 0]
    /\ prior' = [prior EXCEPT ![p] = result[p].status]
    /\ warnings' = [warnings EXCEPT ![p] = {}]
    /\ verified' = [verified EXCEPT ![p] = {}]
    /\ attempts' = [attempts EXCEPT ![p] = <<>>]
    /\ startLedger' = [startLedger EXCEPT ![p] = ledger]
    /\ query' = NoQuery

\* migrate(), first await: initialize() runs CREATE TABLE IF NOT EXISTS
MigrateInitialize(p) ==
    /\ pc[p] = "idle"
    /\ tableExists' = TRUE
    /\ pc' = [pc EXCEPT ![p] = "read"]
    /\ result' = [result EXCEPT ![p] = NoResult]
    /\ BeginCall(p)
    /\ UNCHANGED <<migrations, ledger, schema, commits>>

\* MigrateInitializeFails noting the error and going on to read the ledger.
MigrateInitializeFailsContinue(p) ==
    /\ pc[p] = "idle"
    /\ pc' = [pc EXCEPT ![p] = "read"]
    /\ result' = [result EXCEPT ![p] =
            [NoResult EXCEPT !.status = "threw", !.stage = "initialize"]]
    /\ BeginCall(p)
    /\ UNCHANGED <<migrations, dbVars, commits>>

\* migrate(): initialize() rejects; "Failed to initialize migration table"
MigrateInitializeFails(p) ==
    /\ pc[p] = "idle"
    /\ result' = [result EXCEPT ![p] =
            [NoResult EXCEPT !.status = "threw", !.stage = "initialize"]]
    /\ BeginCall(p)
    /\ UNCHANGED <<migrations, dbVars, pc, commits>>

\* migrate(): applied = await getAppliedMigrations(); the loop starts
MigrateRead(p) ==
    /\ pc[p] = "read"
    /\ applied' = [applied EXCEPT ![p] = getAppliedMigrations]
    /\ idx' = [idx EXCEPT ![p] = 1]
    /\ pc' = [pc EXCEPT ![p] = "loop"]
    /\ UNCHANGED <<migrations, dbVars, migrationsRun, result, prior, warnings,
                   verified, attempts, startLedger, commits, query>>

\* migrate(): getAppliedMigrations() rejects; "Failed to get applied migrations"
MigrateReadFails(p) ==
    /\ pc[p] = "read"
    /\ pc' = [pc EXCEPT ![p] = "idle"]
    /\ result' = [result EXCEPT ![p] =
            [NoResult EXCEPT !.status = "threw", !.stage = "read"]]
    /\ UNCHANGED <<migrations, dbVars, applied, idx, migrationsRun, prior,
                   warnings, verified, attempts, startLedger, commits, query>>

\* the definition the for-of loop of migrate() is at
Current(p) == migrations[idx[p]]

InLoop(p) == pc[p] = "loop" /\ idx[p] <= Len(migrations)

\* IsPending asking the ledger as it is now, not the rows read at the start.
IsPendingFresh(p) == Current(p).version \notin LedgerVersions(ledger)

\* IsPending without the lookup in appliedVersions.
IsPendingAlways(p) == TRUE

\* !appliedVersions.has(migration.version)
IsPending(p) == Current(p).version \notin AppliedVersions(applied[p])

\* Abort without the break: the error is pushed and the loop goes on.
AbortContinue(p, cause) ==
    /\ idx' = [idx EXCEPT ![p] = @ + 1]
    /\ attempts' = [attempts EXCEPT ![p] =
            Append(@, [version |-> Current(p).version, ok |-> FALSE])]
    /\ UNCHANGED <<migrations, tableExists, pc, applied, migrationsRun,
                   result, prior, warnings, verified, startLedger, commits,
                   query>>

\* Abort without the throw after the loop: the call returns its counts.
AbortNoThrow(p, cause) ==
    /\ pc' = [pc EXCEPT ![p] = "idle"]
    /\ result' = [result EXCEPT ![p] =
            [NoResult EXCEPT !.status = "returned",
                             !.total = Len(migrations),
                             !.applied = Len(applied[p]) + migrationsRun[p],
                             !.new = migrationsRun[p]]]
    /\ attempts' = [attempts EXCEPT ![p] =
            Append(@, [version |-> Current(p).version, ok |-> FALSE])]
    /\ UNCHANGED <<migrations, tableExists, applied, idx, migrationsRun,
                   prior, warnings, verified, startLedger, commits, query>>

\* applyMigration threw: errors.push, break, and the throw after the loop
Abort(p, cause) ==
    /\ pc' = [pc EXCEPT ![p] = "idle"]
    /\ result' = [result EXCEPT ![p] =
            [NoResult EXCEPT !.status = "threw", !.stage = "apply",
                             !.version = Current(p).version,
                             !.cause = cause]]
    /\ attempts' = [attempts EXCEPT ![p] =
            Append(@, [version |-> Current(p).version, ok |-> FALSE])]
    /\ UNCHANGED <<migrations, tableExists, applied, idx, migrationsRun,
                   prior, warnings, verified, startLedger, commits, query>>

\* MigrateVerify that repairs a mismatch by storing the registry's checksum.
MigrateVerifyOverwrite(p) ==
    /\ InLoop(p)
    /\ ~IsPending(p)
    /\ LET existing == FindApplied(applied[p], Current(p).version)
           drift == existing /= 0
                    /\ applied[p][existing].checksum /= Current(p).checksum
       IN  /\ warnings' = [warnings EXCEPT ![p] =
                IF drift THEN @ \cup {Current(p).version} ELSE @]
           /\ ledger' = IF drift
                THEN {IF r.version = Current(p).version
                      THEN [r EXCEPT !.checksum = Current(p).checksum]
                      ELSE r : r \in ledger}
                ELSE ledger
    /\ verified' = [verified EXCEPT ![p] = @ \cup {idx[p]}]
    /\ idx' = [idx EXCEPT ![p] = @ + 1]
    /\ UNCHANGED <<migrations, tableExists, schema, pc, applied,
                   migrationsRun, result, prior, attempts, startLedger,
                   commits, query>>

\* MigrateVerify that treats a mismatch as fatal.
MigrateVerifyThrows(p) ==
    /\ InLoop(p)
    /\ ~IsPending(p)
    /\ LET existing == FindApplied(applied[p], Current(p).version)
           drift == existing /= 0
                    /\ applied[p][existing].checksum /= Current(p).checksum
       IN  /\ warnings' = [warnings EXCEPT ![p] =
                IF drift THEN @ \cup {Current(p).version} ELSE @]
           /\ pc' = [pc EXCEPT ![p] = IF drift THEN "idle" ELSE @]
           /\ result' = [result EXCEPT ![p] =
                IF drift
                THEN [NoResult EXCEPT !.status = "threw", !.stage = "apply",
                                      !.version = Current(p).version,
                                      !.cause = "checksum"]
                ELSE @]
           /\ idx' = [idx EXCEPT ![p] = IF drift THEN @ ELSE @ + 1]
    /\ verified' = [verified EXCEPT ![p] = @ \cup {idx[p]}]
    /\ UNCHANGED <<migrations, dbVars, applied, migrationsRun, prior,
                   attempts, startLedger, commits, query>>

\* MigrateVerify without the comparison: applied versions are passed over.
MigrateVerifySkip(p) ==
    /\ InLoop(p)
    /\ ~IsPending(p)
    /\ idx' = [idx EXCEPT ![p] = @ + 1]
    /\ UNCHANGED <<migrations, dbVars, pc, applied, migrationsRun, result,
                   prior, warnings, verified, attempts, startLedger, commits,
                   query>>

\* migrate(), else branch: the version is applied; verify its checksum
MigrateVerify(p) ==
    /\ InLoop(p)
    /\ ~IsPending(p)
    /\ LET existing == FindApplied(applied[p], Current(p).version)
       IN  warnings' = [warnings EXCEPT ![p] =
                IF existing /= 0
                   /\ applied[p][existing].checksum /= Current(p).checksum
                THEN @ \cup {Current(p).version} ELSE @]
    /\ verified' = [verified EXCEPT ![p] = @ \cup {idx[p]}]
    /\ idx' = [idx EXCEPT ![p] = @ + 1]
    /\ UNCHANGED <<migrations, dbVars, pc, applied, migrationsRun, result,
                   prior, attempts, startLedger, commits, query>>

\* applyMigration: the SQL splits into no statement; nothing is executed
MigrateApplyEmpty(p) ==
    /\ InLoop(p)
    /\ IsPending(p)
    /\ SqlStatements(Current(p).upSql) = <<>>
    /\ Abort(p, "empty")
    /\ UNCHANGED <<ledger, schema>>

\* applyMigration: db.prepare(sql) throws for a statement; nothing is executed
MigrateApplyPrepareFails(p) ==
    /\ InLoop(p)
    /\ IsPending(p)
    /\ SqlStatements(Current(p).upSql) /= <<>>
    /\ Abort(p, "prepare")
    /\ UNCHANGED <<ledger, schema>>

\* applyMigration: bind() rejects the checksum, a value that is no string,
\* number or null; the error is caught and rethrown like any other
MigrateApplyBindFails(p) ==
    /\ InLoop(p)
    /\ IsPending(p)
    /\ SqlStatements(Current(p).upSql) /= <<>>
    /\ Current(p).checksum = PromiseObject
    /\ Abort(p, "bind")
    /\ UNCHANGED <<ledger, schema>>

\* applyMigration: the batch commits; migrationsRun++
MigrateApplyOk(p) ==
    /\ InLoop(p)
    /\ IsPending(p)
    /\ SqlStatements(Current(p).upSql) /= <<>>
    /\ \E t \in Timestamps :
         LET m == Current(p)
             stmts == SqlStatements(m.upSql)
             b == Batch(m.version, stmts, LedgerRow(m, t), 0)
         IN  /\ b.failAt = 0
             /\ ledger' = b.ledger
             /\ schema' = b.schema
             /\ commits' = [commits EXCEPT ![m.version] = Append(@, stmts)]
             /\ attempts' = [attempts EXCEPT ![p] =
                    Append(@, [version |-> m.version, ok |-> TRUE])]
    /\ migrationsRun' = [migrationsRun EXCEPT ![p] = @ + 1]
    /\ idx' = [idx EXCEPT ![p] = @ + 1]
    /\ UNCHANGED <<migrations, tableExists, pc, applied, result, prior,
                   warnings, verified, startLedger, query>>

\* applyMigration: a statement of the batch fails, reported by db.batch
\* rejecting ("batch") or by an error entry in its results ("statement")
MigrateApplyBatchFails(p) ==
    /\ InLoop(p)
    /\ IsPending(p)
    /\ SqlStatements(Current(p).upSql) /= <<>>
    /\ \E t \in Timestamps :
         LET m == Current(p)
             stmts == SqlStatements(m.upSql)
         IN  \E fault \in 0..(Len(stmts) + 1), cause \in {"batch", "statement"} :
               LET b == Batch(m.version, stmts, LedgerRow(m, t), fault)
               IN  /\ b.failAt /= 0
                   /\ ledger' = b.ledger
                   /\ schema' = b.schema
                   /\ Abort(p, cause)

\* MigrateReturn taken one definition before the end of the registry.
MigrateReturnEarly(p) ==
    /\ pc[p] = "loop"
    /\ idx[p] >= Len(migrations)
    /\ pc' = [pc EXCEPT ![p] = "idle"]
    /\ result' = [result EXCEPT ![p] =
            [NoResult EXCEPT !.status = "returned",
                             !.total = Len(migrations),
                             !.applied = Len(applied[p]) + migrationsRun[p],
                             !.new = migrationsRun[p]]]
    /\ UNCHANGED <<migrations, dbVars, applied, idx, migrationsRun, prior,
                   warnings, verified, attempts, startLedger, commits, query>>

\* MigrateReturn reporting as applied only the rows read at the start.
MigrateReturnStale(p) ==
    /\ pc[p] = "loop"
    /\ idx[p] > Len(migrations)
    /\ pc' = [pc EXCEPT ![p] = "idle"]
    /\ result' = [result EXCEPT ![p] =
            [NoResult EXCEPT !.status = "returned",
                             !.total = Len(migrations),
                             !.applied = Len(applied[p]),
                             !.new = migrationsRun[p]]]
    /\ UNCHANGED <<migrations, dbVars, applied, idx, migrationsRun, prior,
                   warnings, verified, attempts, startLedger, commits, query>>

\* migrate(): the loop is over without error; return {total, applied, new}
MigrateReturn(p) ==
    /\ pc[p] = "loop"
    /\ idx[p] > Len(migrations)
    /\ pc' = [pc EXCEPT ![p] = "idle"]
    /\ result' = [result EXCEPT ![p] =
            [NoResult EXCEPT !.status = "returned",
                             !.total = Len(migrations),
                             !.applied = Len(applied[p]) + migrationsRun[p],
                             !.new = migrationsRun[p]]]
    /\ UNCHANGED <<migrations, dbVars, applied, idx, migrationsRun, prior,
                   warnings, verified, attempts, startLedger, commits, query>>

\* StatusFor handing out the pending definitions whole.
StatusForWhole(reg, app) ==
    LET appliedVersions == AppliedVersions(app)
        pending == SelectSeq(reg, LAMBDA m : m.version \notin appliedVersions)
    IN  [op |-> "getStatus",
         applied |-> Len(app),
         pending |-> Len(pending),
         latest |-> IF Len(app) > 0
                    THEN CHOOSE v \in appliedVersions :
                           \A w \in appliedVersions : w <= v
                    ELSE 0,
         appliedList |-> app,
         pendingList |-> pending]

\* getStatus(): what a manager with registry reg returns for the rows it read
StatusFor(reg, app) ==
    LET appliedVersions == AppliedVersions(app)
        pending == SelectSeq(reg, LAMBDA m : m.version \notin appliedVersions)
    IN  [op |-> "getStatus",
         applied |-> Len(app),
         pending |-> Len(pending),
         latest |-> IF Len(app) > 0
                    THEN CHOOSE v \in appliedVersions :
                           \A w \in appliedVersions : w <= v
                    ELSE 0,
         appliedList |-> app,
         pendingList |-> [i \in 1..Len(pending) |->
                            [version |-> pending[i].version,
                             name |-> pending[i].name]]]

\* getStatus() of this manager, whose registry is this.migrations
StatusOf(app) == StatusFor(migrations, app)

\* GetStatus that also drops the ledger entries of versions the registry
\* does not define.
GetStatusPrunes ==
    /\ AllIdle
    /\ tableExists' = TRUE
    /\ ledger' = {r \in ledger : \E i \in 1..Len(migrations) :
                                   migrations[i].version = r.version}
    /\ query' = StatusOf(getAppliedMigrations)
    /\ UNCHANGED <<migrations, schema, callVars, commits>>
    /\ UNCHANGED hostVars

\* getStatus(): initialize(), getAppliedMigrations(), then the summary
GetStatus ==
    /\ AllIdle
    /\ tableExists' = TRUE
    /\ query' = StatusOf(getAppliedMigrations)
    /\ UNCHANGED <<migrations, ledger, schema, callVars, commits>>
    /\ UNCHANGED hostVars

\* getStatus(): initialize() rejects; "Failed to initialize migration table"
GetStatusInitializeFails ==
    /\ AllIdle
    /\ query' = [op |-> "getStatusThrew", stage |-> "initialize"]
    /\ UNCHANGED <<migrations, dbVars, callVars, commits>>
    /\ UNCHANGED hostVars

\* getStatus(): getAppliedMigrations() rejects; "Failed to get migration status"
GetStatusReadFails ==
    /\ AllIdle
    /\ tableExists' = TRUE
    /\ query' = [op |-> "getStatusThrew", stage |-> "read"]
    /\ UNCHANGED <<migrations, ledger, schema, callVars, commits>>
    /\ UNCHANGED hostVars

\* IsApplied answering for the versions of the registry only.
IsAppliedRegistered ==
    /\ AllIdle
    /\ tableExists
    /\ \E version \in Versions :
         query' = [op |-> "isApplied", version |-> version,
                   result |-> /\ \E i \in 1..Len(migrations) :
                                    migrations[i].version = version
                              /\ \E r \in ledger : r.version = version]
    /\ UNCHANGED <<migrations, dbVars, callVars, commits>>
    /\ UNCHANGED hostVars

\* isApplied(version): SELECT 1 FROM schema_migrations WHERE version = ?
IsApplied ==
    /\ AllIdle
    /\ tableExists
    /\ \E version \in Versions :
         query' = [op |-> "isApplied", version |-> version,
                   result |-> \E r \in ledger : r.version = version]
    /\ UNCHANGED <<migrations, dbVars, callVars, commits>>
    /\ UNCHANGED hostVars

Migrate(p) ==
    \/ MigrateInitialize(p) /\ UNCHANGED hostVars
    \/ MigrateInitializeFails(p) /\ UNCHANGED hostVars
    \/ MigrateRead(p) /\ UNCHANGED hostVars
    \/ MigrateReadFails(p) /\ UNCHANGED hostVars
    \/ MigrateVerify(p) /\ UNCHANGED hostVars
    \/ MigrateApplyEmpty(p) /\ UNCHANGED hostVars
    \/ MigrateApplyPrepareFails(p) /\ UNCHANGED hostVars
    \/ MigrateApplyOk(p) /\ UNCHANGED hostVars
    \/ MigrateApplyBatchFails(p) /\ UNCHANGED hostVars
    \/ MigrateReturn(p) /\ UNCHANGED hostVars

Next ==
    \/ NewManager
    \/ Register
    \/ Initialize
    \/ GetStatus
    \/ \E p \in Sequential : Migrate(p)

\* one caller that awaits every call before it makes the next one
Spec == Init /\ [][Next]_vars

\* Spec with isApplied() among the operations
NextQuery == Next \/ IsApplied

SpecQuery == Init /\ [][NextQuery]_vars

\* Spec with the storage failing under getStatus()
NextStatus == Next \/ GetStatusInitializeFails \/ GetStatusReadFails

SpecStatus == Init /\ [][NextStatus]_vars

\* time passes
Tick ==
    /\ \E t \in Times :
         /\ t > now
         /\ now' = t
    /\ UNCHANGED <<migrations, dbVars, callVars, commits, query, content,
                   digests, migrationCache, check, fetched, request>>

\* await generateChecksum(content)
GenerateChecksum ==
    /\ Len(digests) < MaxCalls
    /\ digests' = Append(digests, [at |-> now, hex |-> generateChecksum(content)])
    /\ UNCHANGED <<migrations, dbVars, callVars, commits, query, content, now,
                   migrationCache, check, fetched, request>>

\* The checksum generator, called on one content at different times.
InitChecksum ==
    /\ InitManager
    /\ content \in Contents
    /\ digests = <<>>
    /\ now = StartTime
    /\ migrationCache = [status |-> NoQuery, checkedAt |-> 0, running |-> FALSE]
    /\ check = [p \in Procs |-> NoCheck]
    /\ fetched = NoFetch
    /\ request = NoRequest

NextChecksum == Tick \/ GenerateChecksum

SpecChecksum == InitChecksum /\ [][NextChecksum]_vars

\* !expectedToken
Falsy(token) == token \in {"undefined", ""}

\* handleMigrate with a token of its own for deployments that configure none.
AuthorisedByDefault(auth, token) ==
    auth = "Bearer " \o (IF Falsy(token) THEN "tok" ELSE token)

\* handleMigrate: the request passes both checks
Authorised(auth, token) == ~Falsy(token) /\ auth = "Bearer " \o token

\* the Response the migration worker returns
Answer(path, db, auth, token, status) ==
    [phase |-> "done", path |-> path, db |-> db, auth |-> auth,
     token |-> token, status |-> status]

\* migration worker, fetch: no DB binding, 'Database not configured'
FetchNoDb ==
    /\ request.phase /= "migrate"
    /\ \E path \in Paths, auth \in AuthHeaders, token \in Tokens :
         request' = Answer(path, FALSE, auth, token, 500)
    /\ UNCHANGED <<migrations, dbVars, callVars, commits, query, content,
                   digests, now, migrationCache, check, fetched>>

\* migration worker, handleMigrate: 500 without a configured token, 401 for
\* a header that is not 'Bearer <token>'
HandleMigrateRefuse ==
    /\ request.phase /= "migrate"
    /\ \E auth \in AuthHeaders, token \in Tokens :
         /\ ~Authorised(auth, token)
         /\ request' = Answer("/migrate", TRUE, auth, token,
                              IF Falsy(token) THEN 500 ELSE 401)
    /\ UNCHANGED <<migrations, dbVars, callVars, commits, query, content,
                   digests, now, migrationCache, check, fetched>>

\* migration worker, handleMigrate: runMigrations(env.DB) starts with
\* loadMigrations, a new manager
HandleMigrate ==
    /\ request.phase /= "migrate"
    /\ pc[1] = "idle"
    /\ \E auth \in AuthHeaders, token \in Tokens :
         /\ Authorised(auth, token)
         /\ request' = [Answer("/migrate", TRUE, auth, token, 0)
                          EXCEPT !.phase = "migrate"]
    /\ migrations' = loadMigrations
    /\ result' = [result EXCEPT ![1] = NoResult]
    /\ UNCHANGED <<dbVars, pc, applied, idx, migrationsRun, prior, warnings,
                   verified, attempts, startLedger, commits, query, content,
                   digests, now, migrationCache, check, fetched>>

\* migration worker: migrate() is over; 200 with the result, or the catch of
\* fetch answers 500
HandleMigrateRespond ==
    /\ request.phase = "migrate"
    /\ pc[1] = "idle"
    /\ result[1].status /= "none"
    /\ request' = [request EXCEPT
                     !.phase = "done",
                     !.status = IF result[1].status = "returned" THEN 200
                                ELSE 500]
    /\ UNCHANGED <<migrations, dbVars, callVars, commits, query, content,
                   digests, now, migrationCache, check, fetched>>

\* migration worker, handleStatus: getMigrationStatus(env.DB), answered 200
HandleStatus ==
    /\ request.phase /= "migrate"
    /\ \E auth \in AuthHeaders, token \in Tokens :
         request' = Answer("/status", TRUE, auth, token, 200)
    /\ migrations' = loadMigrations
    /\ tableExists' = TRUE
    /\ query' = StatusFor(loadMigrations, getAppliedMigrations)
    /\ UNCHANGED <<ledger, schema, callVars, commits, content, digests, now,
                   migrationCache, check, fetched>>

\* migration worker, handleStatus: getStatus() throws, the catch answers 500
HandleStatusFails ==
    /\ request.phase /= "migrate"
    /\ \E auth \in AuthHeaders, token \in Tokens :
         request' = Answer("/status", TRUE, auth, token, 500)
    /\ migrations' = loadMigrations
    /\ query' = [op |-> "getStatusThrew", stage |-> "initialize"]
    /\ UNCHANGED <<dbVars, callVars, commits, content, digests, now,
                   migrationCache, check, fetched>>

\* migration worker: '/health' and every other path are answered 200
HandleOther ==
    /\ request.phase /= "migrate"
    /\ \E path \in Paths \ {"/migrate", "/status"},
          auth \in AuthHeaders, token \in Tokens :
         request' = Answer(path, TRUE, auth, token, 200)
    /\ UNCHANGED <<migrations, dbVars, callVars, commits, query, content,
                   digests, now, migrationCache, check, fetched>>

\* migrate() of invocation p runs as part of a runMigrations(env.DB)
RunMigrationsOf(p) ==
    \/ check[p].phase = "migrate"
    \/ p \in Sequential /\ request.phase = "migrate"

\* invocation p may take a step of the migrate() call of its runMigrations
LoadedStep(p) ==
    /\ RunMigrationsOf(p)
    /\ pc[p] = "idle" => result[p].status = "none"

\* the steps of migrate() on the registry of loadMigrations
MigrateLoaded(p) ==
    \/ LoadedStep(p) /\ MigrateInitialize(p) /\ UNCHANGED hostVars
    \/ LoadedStep(p) /\ MigrateInitializeFails(p) /\ UNCHANGED hostVars
    \/ LoadedStep(p) /\ MigrateRead(p) /\ UNCHANGED hostVars
    \/ LoadedStep(p) /\ MigrateReadFails(p) /\ UNCHANGED hostVars
    \/ LoadedStep(p) /\ MigrateVerify(p) /\ UNCHANGED hostVars
    \/ LoadedStep(p) /\ MigrateApplyPrepareFails(p) /\ UNCHANGED hostVars
    \/ LoadedStep(p) /\ MigrateApplyBindFails(p) /\ UNCHANGED hostVars
    \/ LoadedStep(p) /\ MigrateApplyOk(p) /\ UNCHANGED hostVars
    \/ LoadedStep(p) /\ MigrateApplyBatchFails(p) /\ UNCHANGED hostVars
    \/ LoadedStep(p) /\ MigrateReturn(p) /\ UNCHANGED hostVars

\* The migration worker: requests are handled one after the other.
NextEndpoint ==
    \/ FetchNoDb
    \/ HandleMigrateRefuse
    \/ HandleMigrate
    \/ HandleMigrateRespond
    \/ HandleStatus
    \/ HandleStatusFails
    \/ HandleOther
    \/ \E p \in Sequential : MigrateLoaded(p)

SpecEndpoint == Init /\ [][NextEndpoint]_vars

\* ------------------------------------------------------------ schema.sql

\* INSERT INTO schema_migrations (version, name, checksum)
\* VALUES (1, 'initial_schema', 'INIT'): the row it inserts
SeedRow(t) ==
    [version |-> 1, name |-> "initial_schema", checksum |-> "INIT",
     applied_at |-> t]

\* the statements of schema.sql other than the seed, as they are kept in
\* schema: they belong to no migration
SchemaFile == {<<0, "schema.sql">>}

\* ExecuteSchema with INSERT OR REPLACE in place of ON CONFLICT DO NOTHING.
ExecuteSchemaReplaces ==
    /\ tableExists' = TRUE
    /\ schema' = schema \cup SchemaFile
    /\ \E t \in Timestamps :
         ledger' = {r \in ledger : r.version /= 1} \cup {SeedRow(t)}
    /\ UNCHANGED <<migrations, callVars, commits, query>>
    /\ UNCHANGED hostVars

\* wrangler d1 execute --file=proxy/database/schema.sql: CREATE TABLE IF NOT
\* EXISTS for every table, and the seed row ON CONFLICT(version) DO NOTHING
ExecuteSchema ==
    /\ tableExists' = TRUE
    /\ schema' = schema \cup SchemaFile
    /\ \E t \in Timestamps :
         ledger' = IF 1 \in LedgerVersions(ledger) THEN ledger
                   ELSE ledger \cup {SeedRow(t)}
    /\ UNCHANGED <<migrations, callVars, commits, query>>
    /\ UNCHANGED hostVars

\* The migration worker on a database that schema.sql may set up, before,
\* between or during the requests.
NextSeeded == ExecuteSchema \/ NextEndpoint

SpecSeeded == Init /\ [][NextSeeded]_vars

\* ------------------------------------------------------- the main worker

\* the invocation that runs the background check of the isolate
Background == {2}

\* now - migrationCache.checkedAt >= cacheExpiry
CacheExpiredInclusive(nowMs, checkedAt) == nowMs - checkedAt >= CacheExpiry

\* now - migrationCache.checkedAt > cacheExpiry
CacheExpired(nowMs, checkedAt) == nowMs - checkedAt > CacheExpiry

\* main worker, fetch: env.DB && env.AUTO_MIGRATE !== 'false', and the cache
\* has expired while no check is running: running is set and the check is
\* handed to ctx.waitUntil; the request itself goes on to handleRequest
Fetch ==
    \E db \in BOOLEAN, autoMigrate \in BOOLEAN :
      LET enabled == db /\ autoMigrate
          start == /\ enabled
                   /\ ~migrationCache.running
                   /\ CacheExpired(now, migrationCache.checkedAt)
      IN  /\ fetched' = [at |-> now, enabled |-> enabled, started |-> start]
          /\ IF start
                THEN /\ migrationCache' =
                          [migrationCache EXCEPT !.running = TRUE]
                     /\ check' = [c \in Procs |->
                           IF c \in Background
                             THEN [phase |-> "status", stamp |-> now,
                                   status |-> NoQuery]
                             ELSE check[c]]
                ELSE UNCHANGED <<migrationCache, check>>
          /\ UNCHANGED <<migrations, dbVars, callVars, commits, query,
                         content, digests, now, request>>

\* the check: getMigrationStatus(env.DB) resolves with no pending migration;
\* the cache takes the status and the stamp of the request, running is reset
CheckStatusCurrent(c) ==
    /\ check[c].phase = "status"
    /\ StatusFor(loadMigrations, getAppliedMigrations).pending = 0
    /\ migrations' = loadMigrations
    /\ tableExists' = TRUE
    /\ query' = StatusFor(loadMigrations, getAppliedMigrations)
    /\ migrationCache' = [status |-> query', checkedAt |-> check[c].stamp,
                          running |-> FALSE]
    /\ check' = [check EXCEPT ![c] = NoCheck]
    /\ UNCHANGED <<ledger, schema, callVars, commits, content, digests, now,
                   fetched, request>>

\* the check: getMigrationStatus(env.DB) resolves with pending migrations;
\* runMigrations(env.DB) starts with loadMigrations, a new manager
CheckStatusPending(c) ==
    /\ check[c].phase = "status"
    /\ pc[c] = "idle"
    /\ StatusFor(loadMigrations, getAppliedMigrations).pending > 0
    /\ migrations' = loadMigrations
    /\ tableExists' = TRUE
    /\ query' = StatusFor(loadMigrations, getAppliedMigrations)
    /\ check' = [check EXCEPT ![c] = [phase |-> "migrate",
                                      stamp |-> check[c].stamp,
                                      status |-> query']]
    /\ result' = [result EXCEPT ![c] = NoResult]
    /\ UNCHANGED <<ledger, schema, pc, applied, idx, migrationsRun, prior,
                   warnings, verified, attempts, startLedger, commits,
                   content, digests, now, migrationCache, fetched, request>>

\* CheckFails leaving running set.
CheckFailsKeepsRunning(c) ==
    /\ check[c].phase = "status"
    /\ migrations' = loadMigrations
    /\ tableExists' \in {tableExists, TRUE}
    /\ query' = [op |-> "getStatusThrew", stage |-> "initialize"]
    /\ check' = [check EXCEPT ![c] = NoCheck]
    /\ UNCHANGED <<ledger, schema, callVars, commits, content, digests, now,
                   migrationCache, fetched, request>>

\* the check: getMigrationStatus(env.DB) rejects; the catch resets running
\* and leaves status and checkedAt as they were
CheckFails(c) ==
    /\ check[c].phase = "status"
    /\ migrations' = loadMigrations
    /\ tableExists' \in {tableExists, TRUE}
    /\ query' = [op |-> "getStatusThrew", stage |-> "initialize"]
    /\ migrationCache' = [migrationCache EXCEPT !.running = FALSE]
    /\ check' = [check EXCEPT ![c] = NoCheck]
    /\ UNCHANGED <<ledger, schema, callVars, commits, content, digests, now,
                   fetched, request>>

\* the check: runMigrations(env.DB) resolved; the cache takes the status
\* read before the migrations ran and the stamp of the request
CheckMigrated(c) ==
    /\ check[c].phase = "migrate"
    /\ pc[c] = "idle"
    /\ result[c].status = "returned"
    /\ migrationCache' = [status |-> check[c].status,
                          checkedAt |-> check[c].stamp,
                          running |-> FALSE]
    /\ check' = [check EXCEPT ![c] = NoCheck]
    /\ UNCHANGED <<migrations, dbVars, callVars, commits, query, content,
                   digests, now, fetched, request>>

\* the check: runMigrations(env.DB) rejected; the catch resets running
CheckMigrateFails(c) ==
    /\ check[c].phase = "migrate"
    /\ pc[c] = "idle"
    /\ result[c].status = "threw"
    /\ migrationCache' = [migrationCache EXCEPT !.running = FALSE]
    /\ check' = [check EXCEPT ![c] = NoCheck]
    /\ UNCHANGED <<migrations, dbVars, callVars, commits, query, content,
                   digests, now, fetched, request>>

\* One isolate of the main worker and the migration worker, on the same
\* database.
NextMain ==
    \/ Tick
    \/ Fetch
    \/ \E c \in Background : CheckStatusCurrent(c)
    \/ \E c \in Background : CheckStatusPending(c)
    \/ \E c \in Background : CheckFails(c)
    \/ \E c \in Background : CheckMigrated(c)
    \/ \E c \in Background : CheckMigrateFails(c)
    \/ HandleMigrate
    \/ HandleMigrateRespond
    \/ \E p \in Procs : MigrateLoaded(p)

SpecMain == Init /\ [][NextMain]_vars

\* Two migrate() invocations against the same database with no lock: their
\* steps interleave at the await points.
NextConcurrent ==
    \/ Register
    \/ \E p \in Procs : Migrate(p)

SpecConcurrent == Init /\ [][NextConcurrent]_vars

\* ---------------------------------------------------------- properties

RegistryVersions == {migrations[i].version : i \in 1..Len(migrations)}

StrictlyIncreasing ==
    \A i \in 1..(Len(migrations) - 1) :
        migrations[i].version < migrations[i + 1].version

Range(f) == {f[i] : i \in DOMAIN f}

\* versions whose applyMigration call of the current call succeeded
OkVersions(p) ==
    {attempts[p][i].version : i \in {j \in 1..Len(attempts[p]) : attempts[p][j].ok}}

\* C1: with a registry of strictly increasing versions, the batches of one
\* migrate() call are attempted one at a time in ascending version order, a
\* batch is attempted only after the previous one committed, and whenever
\* version K+1 is attempted every lower registry version is in the ledger.
C1_AscendingCommitOrder ==
    \A p \in Procs :
      StrictlyIncreasing =>
        LET a == attempts[p]
        IN  /\ \A i \in 1..(Len(a) - 1) :
                 /\ a[i].version < a[i + 1].version
                 /\ a[i].ok
                 /\ a[i].version \in LedgerVersions(ledger)
            /\ \A i \in 1..Len(a) : \A j \in 1..Len(migrations) :
                 migrations[j].version < a[i].version
                    => migrations[j].version \in LedgerVersions(ledger)

\* two versions were applied, one after the other, in one call
C1_Witness ==
    /\ StrictlyIncreasing
    /\ Len(attempts[1]) = 2
    /\ attempts[1][1].ok
    /\ attempts[1][2].ok

\* statements committed for version v
SchemaOf(v) == {e[2] : e \in {x \in schema : x[1] = v}}

\* C2: the ledger has an entry for version v exactly when the statements of
\* v's batch are applied, all of them; after a failed batch neither a ledger
\* entry nor any of its statements is there.
C2_BatchAtomic ==
    \A v \in Versions :
      IF v \in LedgerVersions(ledger)
      THEN /\ Len(commits[v]) = 1
           /\ SchemaOf(v) = Range(commits[v][1])
           /\ SchemaOf(v) /= {}
      ELSE /\ commits[v] = <<>>
           /\ SchemaOf(v) = {}

\* a batch failed through an error entry while another version is applied
C2_Witness ==
    /\ result[1].status = "threw"
    /\ result[1].cause = "statement"
    /\ result[1].version \notin LedgerVersions(ledger)
    /\ ledger /= {}

\* C3: when applying a pending migration fails, migrate() throws and the
\* failed attempt is the last of the call: nothing is attempted after it.
C3_StopAtFirstFailure ==
    \A p \in Procs : \A i \in 1..Len(attempts[p]) :
      ~attempts[p][i].ok =>
        /\ i = Len(attempts[p])
        /\ pc[p] = "idle"
        /\ result[p].status = "threw"
        /\ result[p].stage = "apply"
        /\ result[p].version = attempts[p][i].version
        /\ \A j \in 1..Len(attempts[p]) :
             attempts[p][j].version <= attempts[p][i].version

\* a call threw while a definition with a higher version was still pending
C3_Witness ==
    /\ result[1].status = "threw"
    /\ result[1].stage = "apply"
    /\ \E j \in 1..Len(migrations) :
         /\ migrations[j].version > result[1].version
         /\ migrations[j].version \notin LedgerVersions(ledger)

PendingVersions(q) == {q.pendingList[i].version : i \in 1..Len(q.pendingList)}

\* C4: after a migrate() call that throws, the ledger is its contents before
\* the call plus the entries of the migrations that succeeded before the
\* failure, and a following getStatus() lists the failed version and every
\* unapplied version as pending.
C4_FailureKeepsEarlier ==
    \A p \in Procs :
      (pc[p] = "idle" /\ result[p].status = "threw") =>
        /\ startLedger[p] \subseteq ledger
        /\ LedgerVersions(ledger) =
             LedgerVersions(startLedger[p]) \cup OkVersions(p)
        /\ (query.op = "getStatus" /\ result[p].stage = "apply") =>
             /\ result[p].version \in PendingVersions(query)
             /\ \A j \in 1..Len(migrations) :
                  migrations[j].version \notin LedgerVersions(ledger)
                     => migrations[j].version \in PendingVersions(query)

\* C5: each version's batch commits at most once and the ledger never holds
\* two entries with the same version.
C5_AppliedOnce ==
    \A v \in Versions :
      /\ Len(commits[v]) <= 1
      /\ Cardinality({r \in ledger : r.version = v}) <= 1

\* a second batch for a version that has a ledger entry was submitted
C5_Witness ==
    \E i \in 1..Len(attempts[1]) :
      /\ ~attempts[1][i].ok
      /\ attempts[1][i].version \in LedgerVersions(ledger)
      /\ Len(commits[attempts[1][i].version]) = 1

\* C6 as stated: of two migrate() calls with no register() in between, the
\* second, when it returns, has applied nothing, returns new = 0 and has left
\* the ledger as it was.
C6_SecondCallDoesNothing ==
    \A p \in Procs :
      (prior[p] /= "none" /\ pc[p] = "idle"
         /\ result[p].status = "returned") =>
        /\ attempts[p] = <<>>
        /\ result[p].new = 0
        /\ ledger = startLedger[p]

\* C6, amended: when the first of two migrate() calls with no register() in
\* between returned normally, the second applies nothing and leaves the
\* ledger as the first left it, and when it returns, it returns new = 0.
C6_RepeatAfterReturn ==
    \A p \in Procs :
      prior[p] = "returned" =>
        /\ attempts[p] = <<>>
        /\ migrationsRun[p] = 0
        /\ ledger = startLedger[p]
        /\ result[p].status = "returned" => result[p].new = 0

\* a second call returned right after a first one that applied migrations
C6_Witness ==
    /\ prior[1] = "returned"
    /\ result[1].status = "returned"
    /\ result[1].total > 0
    /\ ledger /= {}

\* the lowest registry version without a ledger entry when the call started
FirstUnapplied(p) ==
    LET todo == RegistryVersions \ LedgerVersions(startLedger[p])
    IN  CHOOSE v \in todo : \A w \in todo : v <= w

\* C7: in the migrate() call that follows a failed one, no version that has
\* a ledger entry is attempted, the first attempt is the lowest registry
\* version without a ledger entry, and when the call returns every registry
\* version is applied.
C7_ResumeAfterFailure ==
    \A p \in Procs :
      prior[p] = "threw" =>
        /\ \A i \in 1..Len(attempts[p]) :
             attempts[p][i].version \notin LedgerVersions(startLedger[p])
        /\ Len(attempts[p]) >= 1 => attempts[p][1].version = FirstUnapplied(p)
        /\ result[p].status = "returned" =>
             RegistryVersions \subseteq LedgerVersions(ledger)

\* a retry skipped what the failed call had applied and applied the rest
C7_Witness ==
    /\ prior[1] = "threw"
    /\ result[1].status = "returned"
    /\ result[1].new >= 1
    /\ startLedger[1] /= {}
    /\ startLedger[1] /= ledger

\* C8: no step of the engine changes or removes an existing ledger entry.
C8_LedgerAppendOnly == [][ledger \subseteq ledger']_vars

\* a checksum mismatch was detected for an applied version
C8_Witness ==
    /\ warnings[1] /= {}
    /\ ledger /= {}
    /\ pc[1] = "idle"

\* definition i is applied and its registry checksum differs from the ledger's
Drifted(p, i) ==
    \E r \in startLedger[p] :
      /\ r.version = migrations[i].version
      /\ r.checksum /= migrations[i].checksum

\* C9: a definition that is already applied with a different checksum gets a
\* drift warning, the call does not throw there, the loop goes on to the
\* next definition, and a call that returns has applied every pending one.
C9_DriftIsNotFatal ==
    \A p \in Procs : \A i \in 1..Len(migrations) :
      Drifted(p, i) =>
        /\ idx[p] > i => migrations[i].version \in warnings[p]
        /\ idx[p] = i => pc[p] = "loop"
        /\ result[p].status = "returned" =>
             /\ idx[p] > i
             /\ RegistryVersions \subseteq LedgerVersions(ledger)

\* a drift warning, then a pending higher version applied in the same call
C9_Witness ==
    /\ warnings[1] /= {}
    /\ result[1].status = "returned"
    /\ result[1].new >= 1
    /\ \E v \in warnings[1] : \E w \in OkVersions(1) : v < w

\* C10 as stated: on every migrate() run that reaches the loop, every
\* registry version with a ledger entry has its checksum compared and a
\* mismatch reported, and the recorded checksum is never overwritten.
C10_ComparedOnEveryRun ==
    \A p \in Procs : \A i \in 1..Len(migrations) :
      (pc[p] = "idle" /\ result[p].status /= "none"
         /\ result[p].stage \notin {"initialize", "read"}
         /\ migrations[i].version \in LedgerVersions(startLedger[p])) =>
        /\ i \in verified[p]
        /\ Drifted(p, i) => migrations[i].version \in warnings[p]
        /\ startLedger[p] \subseteq ledger

\* C10, amended: every registry definition with a ledger entry that the loop
\* of a migrate() run has passed had its checksum compared and a mismatch
\* reported; a run that returns normally has passed them all; the recorded
\* checksum is never overwritten.
C10_ComparedWhenReached ==
    \A p \in Procs :
      /\ startLedger[p] \subseteq ledger
      /\ \A i \in 1..Len(migrations) :
           migrations[i].version \in LedgerVersions(startLedger[p]) =>
             /\ idx[p] > i =>
                  /\ i \in verified[p]
                  /\ Drifted(p, i) => migrations[i].version \in warnings[p]
             /\ result[p].status = "returned" => i \in verified[p]

\* a run that returned compared an applied version and found it unchanged
C10_Witness ==
    /\ result[1].status = "returned"
    /\ verified[1] /= {}
    /\ warnings[1] = {}
    /\ startLedger[1] /= {}

\* the text holds nothing but separators and whitespace
OnlySeparators(sql) == \A i \in 1..Len(sql) : sql[i] \in {";", " "}

\* C11: when migrate() comes to a pending definition whose SQL holds nothing
\* but separators and whitespace, its next step throws the empty-migration
\* error without running a batch: ledger, schema and committed batches stay
\* as they are (the version gains no ledger entry), the failed attempt is
\* the last of the call, and the call is over.
C11_EmptyMigrationRejected ==
    [][\A p \in Procs :
         (InLoop(p) /\ IsPending(p) /\ OnlySeparators(Current(p).upSql)) =>
           /\ pc'[p] = "idle"
           /\ result'[p].status = "threw"
           /\ result'[p].cause = "empty"
           /\ result'[p].version = Current(p).version
           /\ ledger' = ledger
           /\ schema' = schema
           /\ commits' = commits
           /\ attempts'[p] =
                Append(attempts[p], [version |-> Current(p).version, ok |-> FALSE])
           /\ migrationsRun'[p] = migrationsRun[p]]_vars

\* a call threw on an empty migration, its version has no ledger entry and
\* a higher version is registered and was not attempted
C11_Witness ==
    /\ pc[1] = "idle"
    /\ result[1].status = "threw"
    /\ result[1].cause = "empty"
    /\ result[1].version \notin LedgerVersions(ledger)
    /\ \E j \in 1..Len(migrations) :
         /\ migrations[j].version > result[1].version
         /\ migrations[j].version \notin LedgerVersions(ledger)

\* C12: register() with a version that is already in the registry fails and
\* leaves the registry unchanged, so the registry's versions are unique and
\* strictly increasing after any sequence of register() calls.
C12_DuplicateRejected ==
    /\ \A i, j \in 1..Len(migrations) :
         i /= j => migrations[i].version /= migrations[j].version
    /\ StrictlyIncreasing
    /\ Cardinality(RegistryVersions) = Len(migrations)

\* the sequence without its k-th element
Without(seq, k) == SubSeq(seq, 1, k - 1) \o SubSeq(seq, k + 1, Len(seq))

\* registry positions the loop of p's call has handled
Handled(p) ==
    IF pc[p] = "idle" /\ result[p].status = "threw" /\ result[p].stage = "apply"
    THEN idx[p]
    ELSE IF idx[p] = 0 THEN 0 ELSE idx[p] - 1

\* the handled positions where applyMigration was called, ascending
AttemptedPositions(p) ==
    SelectSeq([i \in 1..Handled(p) |-> i], LAMBDA i : i \notin verified[p])

\* C13: every register() call leaves the registry sorted by ascending
\* version and holding the definitions it held plus the new one, whatever
\* the order the versions come in; migrate() handles the definitions in
\* registry order, each either compared (applied) or attempted (pending).
C13_SortedRegistry ==
    [][/\ \A i \in 1..(Len(migrations') - 1) :
            migrations'[i].version <= migrations'[i + 1].version
       /\ migrations' /= migrations =>
            \/ migrations' = <<>>
            \/ \E k \in 1..Len(migrations') :
                 /\ Without(migrations', k) = migrations
                 /\ migrations'[k].version = query'.version
       /\ \A p \in Procs :
            /\ verified'[p] \subseteq 1..Handled(p)'
            /\ Len(attempts'[p]) = Len(AttemptedPositions(p)')
            /\ \A k \in 1..Len(attempts'[p]) :
                 attempts'[p][k].version =
                    migrations'[AttemptedPositions(p)'[k]].version]_vars

\* the last register() call supplied a version lower than one registered
\* before it, and the registry lists it first
C13_Witness ==
    /\ query.op = "register"
    /\ Len(migrations) = 2
    /\ migrations[1].version = query.version
    /\ migrations[1].version < migrations[2].version

\* C14: a migrate() call that returned reports total = size of the registry,
\* new = number of migrations it applied, which is the number of registry
\* versions without a ledger entry when it started, and applied = number of
\* ledger entries read at its start + new.
C14_ReturnedCounts ==
    \A p \in Procs :
      (pc[p] = "idle" /\ result[p].status = "returned") =>
        /\ result[p].total = Len(migrations)
        /\ result[p].new = Len(attempts[p])
        /\ \A i \in 1..Len(attempts[p]) : attempts[p][i].ok
        /\ result[p].new =
             Cardinality(RegistryVersions \ LedgerVersions(startLedger[p]))
        /\ result[p].applied = Cardinality(startLedger[p]) + result[p].new
        /\ Len(applied[p]) = Cardinality(startLedger[p])

\* a call returned {total: 2, applied: 2, new: 1}: one version was applied
\* before it started, the other one it applied itself
C14_Witness ==
    /\ pc[1] = "idle"
    /\ result[1].status = "returned"
    /\ result[1].total = 2
    /\ result[1].new = 1
    /\ result[1].applied = 2
    /\ Cardinality(startLedger[1]) = 1

\* the registry definitions whose version has no ledger entry, as the
\* {version, name} pairs of a status
AbsentFromLedger ==
    LET absent == SelectSeq(migrations,
                    LAMBDA m : m.version \notin LedgerVersions(ledger))
    IN  [i \in 1..Len(absent) |->
           [version |-> absent[i].version, name |-> absent[i].name]]

\* C15: getStatus() reports applied = number of ledger entries, pending =
\* number of registry versions without a ledger entry, latest = the highest
\* applied version (0 for an empty ledger), and as pending list the registry
\* definitions absent from the ledger in ascending version order.
C15_StatusCounts ==
    query.op = "getStatus" =>
      /\ query.applied = Cardinality(ledger)
      /\ query.pending =
           Cardinality(RegistryVersions \ LedgerVersions(ledger))
      /\ ledger = {} => query.latest = 0
      /\ ledger /= {} =>
           /\ query.latest \in LedgerVersions(ledger)
           /\ \A v \in LedgerVersions(ledger) : v <= query.latest
      /\ query.pendingList = AbsentFromLedger
      /\ \A i \in 1..(Len(query.pendingList) - 1) :
           query.pendingList[i].version <= query.pendingList[i + 1].version

\* C16: the entries getAppliedMigrations() returns, which getStatus()
\* reports as applied, are all the ledger entries in ascending version
\* order, each carrying version, name, checksum and applied-at.
C16_AppliedEntriesComplete ==
    query.op = "getStatus" =>
      /\ Len(query.appliedList) = Cardinality(ledger)
      /\ \A i \in 1..(Len(query.appliedList) - 1) :
           query.appliedList[i].version < query.appliedList[i + 1].version
      /\ \A i \in 1..Len(query.appliedList) :
           /\ DOMAIN query.appliedList[i] =
                {"version", "name", "checksum", "applied_at"}
           /\ query.appliedList[i] \in ledger

\* the registries that differ from this.migrations in SQL text and checksum
\* only
SqlVariants ==
    {[i \in 1..Len(migrations) |->
        [version |-> migrations[i].version, name |-> migrations[i].name,
         upSql |-> f[i][1], checksum |-> f[i][2]]] :
       f \in [1..Len(migrations) -> SqlTexts \X Checksums]}

\* C17: every element of the pending list of a getStatus() result has the
\* fields version and name and no other, and a manager whose registry
\* differs in SQL text or checksum only returns the same result for the
\* same ledger.
C17_StatusHidesSql ==
    query.op = "getStatus" =>
      /\ \A i \in 1..Len(query.pendingList) :
           DOMAIN query.pendingList[i] = {"version", "name"}
      /\ \A reg \in SqlVariants :
           StatusFor(reg, getAppliedMigrations) = query

\* a status with one applied entry and one pending definition, for a
\* registry that has variants
C17_Witness ==
    /\ query.op = "getStatus"
    /\ Len(query.pendingList) = 1
    /\ query.applied = 1
    /\ Cardinality(SqlVariants) > 1

\* the step is one of invocation p's loop
LoopStepOf(p) == pc[p] = "loop" /\ <<pc[p], idx[p]>>' /= <<pc[p], idx[p]>>

\* the i-th applyMigration call of p's current call reached db.batch
Submitted(p, i) ==
    \/ attempts[p][i].ok
    \/ i = Len(attempts[p]) /\ result[p].cause \in {"batch", "statement"}

\* C18: nothing keeps two invocations apart.  An invocation decides on the
\* rows it read: at a definition whose version was not among them its step
\* is an applyMigration call for that version, whatever the ledger holds by
\* then, and unless the SQL is empty or a prepare fails the call submits the
\* batch.  So when two invocations read before either commits, both submit
\* a batch for the same version.
C18_NoMutualExclusion ==
    [][\A p \in Procs :
         (LoopStepOf(p) /\ InLoop(p)
            /\ Current(p).version \notin AppliedVersions(applied[p])) =>
           /\ Len(attempts'[p]) = Len(attempts[p]) + 1
           /\ attempts'[p][Len(attempts'[p])].version = Current(p).version
           /\ (~attempts'[p][Len(attempts'[p])].ok
                 /\ OnlySeparators(Current(p).upSql)) => result'[p].cause = "empty"
           /\ ~OnlySeparators(Current(p).upSql) =>
                \/ result'[p].cause = "prepare"
                \/ attempts'[p][Len(attempts'[p])].ok
                \/ result'[p].cause \in {"batch", "statement"}]_vars

\* both invocations read the ledger before version v was committed, both
\* submitted v's batch; the batch of invocation 1 committed and the batch of
\* invocation 2 failed
C18_Witness ==
    \E v \in Versions :
      /\ v \notin AppliedVersions(applied[1]) \cup AppliedVersions(applied[2])
      /\ attempts[1] /= <<>>
      /\ attempts[1][Len(attempts[1])] = [version |-> v, ok |-> TRUE]
      /\ attempts[2] /= <<>>
      /\ attempts[2][Len(attempts[2])] = [version |-> v, ok |-> FALSE]
      /\ Submitted(2, Len(attempts[2]))

\* C19: with the PRIMARY KEY on version and atomic batches, in every
\* interleaving of two migrate() invocations each version's batch commits
\* at most once and in one invocation only, the ledger holds at most one
\* entry per version, and an invocation that comes to apply a version the
\* other one has committed throws there: its batch changes nothing, fails
\* with a statement error, and the call ends with no later version tried.
\* (The counts are stated of the steps that commit; no other step changes
\* them.)
C19_PrimaryKeyBreaksTie ==
    [][/\ (commits' /= commits \/ ledger' /= ledger) =>
            /\ \A v \in Versions :
                 /\ Len(commits'[v]) <= 1
                 /\ Cardinality({r \in ledger' : r.version = v}) <= 1
            /\ \A p, q \in Procs :
                 p /= q => OkVersions(p)' \cap OkVersions(q)' = {}
       /\ \A p \in Procs :
            (LoopStepOf(p) /\ InLoop(p)
               /\ Current(p).version \notin AppliedVersions(applied[p])
               /\ Current(p).version \in LedgerVersions(ledger)) =>
              /\ pc'[p] = "idle"
              /\ result'[p].status = "threw"
              /\ result'[p].version = Current(p).version
              /\ result'[p].cause \in {"batch", "statement", "prepare", "empty"}
              /\ (~OnlySeparators(Current(p).upSql)
                    /\ result'[p].cause /= "prepare") =>
                   result'[p].cause \in {"batch", "statement"}
              /\ ~attempts'[p][Len(attempts'[p])].ok
              /\ ledger' = ledger
              /\ schema' = schema
              /\ commits' = commits]_vars

\* invocation 1 lost the race for a version to invocation 2: its batch
\* failed on the entry invocation 2 had committed, and it stopped with a
\* higher version registered that it never attempted
C19_Witness ==
    /\ pc[1] = "idle"
    /\ result[1].status = "threw"
    /\ result[1].cause = "statement"
    /\ result[1].version \in OkVersions(2)
    /\ result[1].version \notin AppliedVersions(applied[1])
    /\ \E j \in 1..Len(migrations) :
         /\ migrations[j].version > result[1].version
         /\ \A i \in 1..Len(attempts[1]) :
              attempts[1][i].version /= migrations[j].version

\* C20: isApplied(v) answers true exactly when the ledger holds an entry
\* with version v, whether or not the registry has a definition of v.
C20_IsAppliedIffInLedger ==
    query.op = "isApplied" =>
      /\ query.result \in BOOLEAN
      /\ query.result <=> (query.version \in LedgerVersions(ledger))

\* isApplied answered true for a version the registry does not define,
\* while a version the registry defines has no ledger entry
C20_Witness ==
    /\ query.op = "isApplied"
    /\ query.result
    /\ query.version \notin RegistryVersions
    /\ RegistryVersions \ LedgerVersions(ledger) /= {}

\* C21: initialize() creates the ledger table when it is absent and changes
\* nothing else; called again, alone or at the start of migrate() or
\* getStatus(), at any point, it leaves the table and every entry as they
\* are.  The table, once there, is never dropped.
C21_InitializeIdempotent ==
    [][/\ tableExists => tableExists'
       /\ query'.op = "initialize" =>
            /\ tableExists'
            /\ ledger' = ledger
            /\ schema' = schema
            /\ migrations' = migrations
       /\ \A p \in Procs :
            (pc[p] = "idle" /\ pc'[p] = "read") =>
              /\ tableExists'
              /\ ledger' = ledger
              /\ schema' = schema
       /\ query'.op = "getStatus" =>
            /\ tableExists'
            /\ ledger' = ledger
            /\ schema' = schema]_vars

\* initialize() was called on a table that holds entries; they are all there
C21_Witness ==
    /\ query.op = "initialize"
    /\ tableExists
    /\ Cardinality(ledger) = 2

\* C22: when the initialization of the ledger fails, migrate() and
\* getStatus() throw at once: the step that fails is the end of the call,
\* the ledger has not been read, no migration has been attempted, and
\* table, ledger and schema are as they were.
C22_InitializeFailureIsFatal ==
    [][/\ \A p \in Procs :
            (result'[p].status = "threw" /\ result'[p].stage = "initialize") =>
              /\ pc'[p] = "idle"
              /\ applied'[p] = <<>>
              /\ idx'[p] = 0
              /\ attempts'[p] = <<>>
              /\ migrationsRun'[p] = 0
              /\ <<result[p], prior[p]>>' /= <<result[p], prior[p]>> =>
                   /\ pc[p] = "idle"
                   /\ UNCHANGED <<tableExists, ledger, schema, commits>>
       /\ (query'.op = "getStatusThrew" /\ query'.stage = "initialize") =>
            UNCHANGED <<tableExists, ledger, schema, commits, migrations,
                        callVars>>]_vars

\* migrate() and then getStatus() failed at the initialization while a
\* registered version is pending; nothing was attempted
C22_Witness ==
    /\ result[1].status = "threw"
    /\ result[1].stage = "initialize"
    /\ query.op = "getStatusThrew"
    /\ query.stage = "initialize"
    /\ RegistryVersions \ LedgerVersions(ledger) /= {}
    /\ ledger /= {}

\* C23: when a statement of a migration's batch fails, the error migrate()
\* throws carries the version of the failed migration, its name and the
\* underlying cause.
C23_FailureCarriesName ==
    \A p \in Procs :
      (pc[p] = "idle" /\ result[p].status = "threw"
         /\ result[p].stage = "apply"
         /\ result[p].cause \in {"batch", "statement"}) =>
        /\ attempts[p] /= <<>>
        /\ result[p].version = attempts[p][Len(attempts[p])].version
        /\ "name" \in DOMAIN result[p]
        /\ \E i \in 1..Len(migrations) :
             /\ migrations[i].version = result[p].version
             /\ migrations[i].name = result[p].name

C24_LoaderRegistersDigest ==
    /\ \A i \in 1..Len(migrations) :
         migrations[i].checksum = generateChecksum(migrations[i].upSql)
    /\ \A r \in ledger : \A i \in 1..Len(migrations) :
         migrations[i].version = r.version =>
            r.checksum = generateChecksum(migrations[i].upSql)

\* this step is the migration worker taking a request: it answers it, or
\* starts the runMigrations it will answer after
RequestHandled == request' /= request /\ request.phase /= "migrate"

InFlight(c) == check[c].phase /= "none"

\* this step hands a new check to ctx.waitUntil
CheckStarts ==
    \E c \in Procs : check'[c] /= check[c] /\ check'[c].phase = "status"

\* this step is a fetch of the main worker with the database bound and
\* AUTO_MIGRATE not 'false', that starts no check
FetchStartsNone ==
    /\ fetched' /= fetched
    /\ fetched'.enabled
    /\ ~CheckStarts

\* C27: once a check started by a request stamped t has completed
\* successfully (the cache holds its status and t), no fetch stamped at or
\* before t + 5 minutes starts a check, no check in flight was started in
\* that window, and a fetch stamped after the window, with auto-migration
\* enabled and no check in flight, starts one.
C27_CheckedOncePerWindow ==
    [][migrationCache.status /= NoQuery =>
         LET t == migrationCache.checkedAt
         IN  /\ CheckStarts => now > t + CacheExpiry
             /\ \A c \in Procs : InFlight(c) => check[c].stamp > t + CacheExpiry
             /\ FetchStartsNone =>
                  \/ now <= t + CacheExpiry
                  \/ \E c \in Procs : InFlight(c)]_vars

\* the first fetch after the window of a successful check started a check
C27_Witness ==
    /\ migrationCache.status /= NoQuery
    /\ fetched.started
    /\ fetched.at = migrationCache.checkedAt + CacheExpiry + 1
    /\ \E c \in Procs : check[c] = [phase |-> "status", stamp |-> fetched.at,
                                    status |-> NoQuery]

\* C28: a fetch starts a check only while none is in flight and running is
\* false; running is true exactly while a check is in flight, so it is reset
\* when the check finishes, whether it succeeded or failed; and a fetch with
\* auto-migration enabled starts no check only when one is in flight or a
\* successful check is still fresh: a failed check is retried by the next
\* request.
C28_OneCheckInFlight ==
    [][/\ Cardinality({c \in Procs : InFlight(c)}) <= 1
       /\ migrationCache.running <=> \E c \in Procs : InFlight(c)
       /\ CheckStarts =>
            /\ ~migrationCache.running
            /\ \A c \in Procs : ~InFlight(c)
            /\ migrationCache'.running
       /\ \A c \in Procs : (InFlight(c) /\ ~InFlight(c)') =>
            ~migrationCache'.running
       /\ FetchStartsNone =>
            \/ migrationCache.running
            \/ /\ migrationCache.status /= NoQuery
               /\ now <= migrationCache.checkedAt + CacheExpiry]_vars

\* runMigrations of an earlier check threw, no check has succeeded yet, and
\* the next request has started a new check
C28_Witness ==
    /\ \E c \in Procs : /\ check[c].phase = "status"
                        /\ result[c].status = "threw"
                        /\ check[c].stamp = fetched.at
    /\ migrationCache.running
    /\ migrationCache.status = NoQuery
    /\ fetched.started

\* the last migrate() call of p returned normally and nothing was called
\* on the registry since
Returned(p) == pc[p] = "idle" /\ result[p].status = "returned"

\* C29: when migrate() has returned normally, with no other invocation at
\* work, every version of the registry has a ledger entry, the applied count
\* it returned is the number of ledger entries, and a getStatus() called next
\* reports pending = 0 and the same applied count.
C29_ReturnMeansComplete ==
    [][\A p \in Sequential :
         Returned(p)' =>
           /\ RegistryVersions' \subseteq LedgerVersions(ledger')
           /\ result'[p].applied = Cardinality(ledger')
           /\ (Returned(p) /\ query' /= query /\ query'.op = "getStatus") =>
                /\ query'.pending = 0
                /\ query'.applied = result[p].applied]_vars

\* migrate() applied a definition of a registry of two and returned, and the
\* getStatus() that followed found nothing pending and two entries
C29_Witness ==
    /\ Returned(1)
    /\ result[1].new >= 1
    /\ result[1].applied = 2
    /\ Cardinality(RegistryVersions) = 2
    /\ query.op = "getStatus"
    /\ query.pending = 0
    /\ query.applied = 2

\* C30: within one migrate() call no version is submitted to the database
\* more than once, whatever register() has put into the registry.
C30_SubmittedOnce ==
    \A p \in Sequential : \A i, j \in 1..Len(attempts[p]) :
        (i < j /\ Submitted(p, i) /\ Submitted(p, j)) =>
            attempts[p][i].version /= attempts[p][j].version

\* C31: a drift warning is emitted for a version only if the checksum that
\* applying its registered definition records differs from the checksum the
\* ledger held for it when the call began; so a migration applied by
\* migrate() draws no warning from a later migrate() on the same registry.
C31_WarningMeansDrift ==
    \A p \in Procs : \A v \in warnings[p] :
      \E i \in 1..Len(migrations) : \E r \in startLedger[p] :
        /\ migrations[i].version = v
        /\ r.version = v
        /\ r.checksum /= LedgerRow(migrations[i], r.applied_at).checksum

\* this step is a getStatus() or isApplied() call that gave a new answer
Answered(op) == query'.op = op /\ query' /= query

\* C32: getStatus() and isApplied() add, change and remove no ledger entry
\* and execute no migration SQL: ledger, schema, committed batches, registry
\* and the state of every migrate() call stay as they are.  isApplied()
\* changes nothing in the database; getStatus() changes at most the
\* existence of the ledger table, which exists after it.
C32_QueriesChangeNothing ==
    [][/\ (query'.op \in {"getStatus", "isApplied"} /\ query' /= query) =>
            /\ ledger' = ledger
            /\ schema' = schema
            /\ commits' = commits
            /\ migrations' = migrations
            /\ attempts' = attempts
       /\ Answered("isApplied") => tableExists' = tableExists
       /\ Answered("getStatus") => tableExists']_vars

\* getStatus() was called on a database without ledger table: the table
\* exists, empty, both definitions are pending and no SQL has run
C32_Witness ==
    /\ query.op = "getStatus"
    /\ query.pending = 2
    /\ query.applied = 0
    /\ tableExists
    /\ ledger = {}
    /\ schema = {}
    /\ \A p \in Procs : attempts[p] = <<>> /\ result[p].status = "none"

\* the migrate() call of p read the seed row of schema.sql
ReadSeed(p) ==
    \E i \in 1..Len(applied[p]) :
        applied[p][i] = [version |-> 1, checksum |-> "INIT"]

\* C33: a runMigrations that finds the seed row of schema.sql treats
\* migration 1 as applied: it submits no batch for version 1 and runs none
\* of its SQL, ends by returning new = 0, and the seed row stays as it is.
\* Executing schema.sql, the first time or again, changes no ledger entry
\* and never leaves two entries for one version.
C33_SeedCountsAsApplied ==
    [][/\ \A r \in ledger : r \in ledger'
       /\ \A r1, r2 \in ledger' : r1.version = r2.version => r1 = r2
       /\ \A p \in Sequential : ReadSeed(p)' =>
            /\ \E t \in Timestamps : SeedRow(t) \in ledger'
            /\ attempts'[p] = <<>>
            /\ commits'[1] = <<>>
            /\ \A s \in schema' : s[1] /= 1
            /\ (pc'[p] = "idle" /\ result'[p].status /= "none") =>
                 /\ result'[p].status = "returned"
                 /\ result'[p].new = 0
                 /\ result'[p].applied = 1]_vars

\* schema.sql set the database up, runMigrations found the seed row and
\* returned new = 0, and schema.sql was the only SQL that ran
C33_Witness ==
    /\ ReadSeed(1)
    /\ Returned(1)
    /\ result[1].new = 0
    /\ request.status = 200
    /\ ledger = startLedger[1]
    /\ Cardinality(ledger) = 1
    /\ schema = SchemaFile

====
